---- MODULE Spec2Model ----
(***************************************************************************)
(* Model of the Flask backend in app/routes.py: the lazily populated       *)
(* knowledge base (load_college_data), the ask_ai handler that uses it,    *)
(* and the complaint handlers register_faculty, submit_complaint and       *)
(* faculty_reply, which talk to the external database.                     *)
(*                                                                         *)
(* Every request is served by a thread; a thread's position in its handler *)
(* is pc[t].  A step is at most one external call (an upload, a model      *)
(* call, one database statement) together with the local code around it,   *)
(* so that two requests interleave between any two external calls.         *)
(* trace[t] logs the external calls of the request a thread is serving.    *)
(***************************************************************************)
EXTENDS Integers, Sequences, FiniteSets, TLC

\* ---------------------------------------------------------------- bounds
\* Requests served in one run of the ask_ai server, and of the complaint server.
MaxRequests == 2
MaxDbRequests == 3
\* Calls a direct caller of load_college_data makes, one after the other.
MaxCalls == 3
\* Matching files the documents folder may hold.
MaxFiles == 2

\* Two request threads: the least that lets two requests overlap.
Threads == {1, 2}
Files == 1..MaxFiles

\* Messages an external call may raise with (str(e)).
ErrMsgs == {"timeout", "rejected"}
\* request.json['question']: a string, or absent (data.get returns None).
NoneValue == "None"
Questions == {"q", NoneValue}
FacultyIds == {"f1", "f2"}
Emails == {"a@rgukt", "b@rgukt"}
\* complaint_id of a reply: the id of a row, or of none.
ComplaintIds == {1, 2}

VARIABLES
  api_key_set,          \* bool(Config.GEMINI_API_KEY)
  folder_exists,        \* os.path.exists(folder_path)
  folder_files,         \* the files of the folder matching the extensions
  knowledge_base,       \* the global list of uploaded file handles
  upload_count,         \* per file, the genai.upload_file calls made so far
  faculty,              \* table faculty
  complaints,           \* table complaints; a row's id is its index
  complaint_responses,  \* table complaint_responses
  pc,                   \* per thread, its position
  handler,              \* per thread, the handler it runs
  request,              \* per thread, the request's fields
  response,             \* per thread, the response of its last request
  trace,                \* per thread, the external calls of its request
  files_to_upload,      \* per thread, load_college_data's remaining files
  chat_content,         \* per thread, the files attached to the prompt
  faculty_response,     \* per thread, submit_complaint's lookup result
  ret,                  \* per thread, where load_college_data returns to
  served                \* requests started so far

kbVars == <<knowledge_base, upload_count>>
envVars == <<api_key_set, folder_exists, folder_files>>
dbVars == <<faculty, complaints, complaint_responses>>
aiLocals == <<files_to_upload, chat_content, ret>>
vars == <<api_key_set, folder_exists, folder_files, knowledge_base, upload_count,
          faculty, complaints, complaint_responses, pc, handler, request,
          response, trace, files_to_upload, chat_content, faculty_response,
          ret, served>>

\* ------------------------------------------------------------- helpers
\* One external call in a request's trace.
Event(c, a, succeeded) == [call |-> c, arg |-> a, ok |-> succeeded]

\* (jsonify(body), status) and the bodies the handlers build.
NoResponse == [status |-> 0, json |-> FALSE, key |-> "", text |-> ""]
JsonResponse(st, k, txt) == [status |-> st, json |-> TRUE, key |-> k, text |-> txt]
\* An exception no handler catches: the framework's own 500 page.
UnhandledResponse == [status |-> 500, json |-> FALSE, key |-> "", text |-> ""]

NoRequest == [question |-> "", id |-> "", email |-> "", complaint_id |-> 0]

RECURSIVE GlobOrder(_)
\* glob's result for the folder as a list.
GlobOrder(S) ==
  IF S = {} THEN <<>>
  ELSE LET m == CHOOSE x \in S : \A y \in S : x <= y
       IN <<m>> \o GlobOrder(S \ {m})

\* The handle genai.upload_file returns: a fresh object per call.
Handle(f, n) == [file |-> f, n |-> n]

\* knowledge_base.append(uploaded_file)
KbAppendReset(kb, h) == <<h>>
KbAppend(kb, h) == Append(kb, h)

\* `if len(knowledge_base) > 0: return`
AlreadyLoadedNever(kb) == FALSE
AlreadyLoaded(kb) == Len(kb) > 0

\* The files the loop still visits after one upload raised.
AfterFailedUploadAbort(rest) == <<>>
AfterFailedUpload(rest) == rest

\* `if not Config.GEMINI_API_KEY`
KeyMissingIgnored == FALSE
KeyMissing == ~api_key_set

Log(t, e) == trace' = [trace EXCEPT ![t] = Append(@, e)]
Goto(t, p) == pc' = [pc EXCEPT ![t] = p]
Respond(t, r) == response' = [response EXCEPT ![t] = r] /\ Goto(t, "done")

\* ---------------------------------------------------- load_college_data
\* Where a return of load_college_data continues.
ReturnTo(t) ==
  CASE ret[t] = "ask_ai" -> "ask_build"
    [] OTHER -> "idle"

\* Lines 23-24: the guard.
LoadGuardReturn(t) ==
  /\ pc[t] = "load_guard"
  /\ AlreadyLoaded(knowledge_base)
  /\ Goto(t, ReturnTo(t))
  /\ UNCHANGED <<envVars, kbVars, dbVars, handler, request, response, trace,
                 aiLocals, faculty_response, served>>

\* Lines 36-39: the folder is missing.
LoadFolderMissing(t) ==
  /\ pc[t] = "load_guard"
  /\ ~AlreadyLoaded(knowledge_base)
  /\ ~folder_exists
  /\ Goto(t, ReturnTo(t))
  /\ UNCHANGED <<envVars, kbVars, dbVars, handler, request, response, trace,
                 aiLocals, faculty_response, served>>

\* Lines 41-46: the folder holds no matching file.
LoadNoFiles(t) ==
  /\ pc[t] = "load_guard"
  /\ ~AlreadyLoaded(knowledge_base)
  /\ folder_exists
  /\ folder_files = {}
  /\ Goto(t, ReturnTo(t))
  /\ UNCHANGED <<envVars, kbVars, dbVars, handler, request, response, trace,
                 aiLocals, faculty_response, served>>

\* Lines 41-48: the scan found files.
LoadScan(t) ==
  /\ pc[t] = "load_guard"
  /\ ~AlreadyLoaded(knowledge_base)
  /\ folder_exists
  /\ folder_files # {}
  /\ files_to_upload' = [files_to_upload EXCEPT ![t] = GlobOrder(folder_files)]
  /\ Goto(t, "load_upload")
  /\ UNCHANGED <<envVars, kbVars, dbVars, handler, request, response, trace,
                 chat_content, ret, faculty_response, served>>

\* Lines 51-55: one upload that succeeds.
LoadUploadOk(t) ==
  /\ pc[t] = "load_upload"
  /\ files_to_upload[t] # <<>>
  /\ LET f == Head(files_to_upload[t])
         n == upload_count[f] + 1
     IN /\ upload_count' = [upload_count EXCEPT ![f] = n]
        /\ knowledge_base' = KbAppend(knowledge_base, Handle(f, n))
        /\ Log(t, Event("upload_file", f, TRUE))
  /\ files_to_upload' = [files_to_upload EXCEPT ![t] = Tail(@)]
  /\ UNCHANGED <<envVars, dbVars, pc, handler, request, response,
                 chat_content, ret, faculty_response, served>>

\* Lines 51-57: one upload that raises; the except clause logs and goes on.
LoadUploadFail(t) ==
  /\ pc[t] = "load_upload"
  /\ files_to_upload[t] # <<>>
  /\ LET f == Head(files_to_upload[t])
     IN /\ upload_count' = [upload_count EXCEPT ![f] = @ + 1]
        /\ Log(t, Event("upload_file", f, FALSE))
  /\ files_to_upload' = [files_to_upload EXCEPT ![t] = AfterFailedUpload(Tail(@))]
  /\ UNCHANGED <<envVars, knowledge_base, dbVars, pc, handler, request, response,
                 chat_content, ret, faculty_response, served>>

\* Line 59: the loop is over.
LoadDone(t) ==
  /\ pc[t] = "load_upload"
  /\ files_to_upload[t] = <<>>
  /\ Goto(t, ReturnTo(t))
  /\ UNCHANGED <<envVars, kbVars, dbVars, handler, request, response, trace,
                 aiLocals, faculty_response, served>>

\* The call itself: enter load_college_data, to return to `back`.
CallLoad(t, back) ==
  /\ ret' = [ret EXCEPT ![t] = back]
  /\ Log(t, Event("load_college_data", 0, TRUE))
  /\ Goto(t, "load_guard")

\* --------------------------------------------------------------- ask_ai
\* Lines 70-72: a request arrives.
AskAiEntry(t, q) ==
  /\ pc[t] \in {"idle", "done"}
  /\ served < MaxRequests
  /\ served' = served + 1
  /\ handler' = [handler EXCEPT ![t] = "ask_ai"]
  /\ request' = [request EXCEPT ![t] = [NoRequest EXCEPT !.question = q]]
  /\ response' = [response EXCEPT ![t] = NoResponse]
  /\ trace' = [trace EXCEPT ![t] = <<>>]
  /\ chat_content' = [chat_content EXCEPT ![t] = <<>>]
  /\ Goto(t, "ask_key")
  /\ UNCHANGED <<envVars, kbVars, dbVars, files_to_upload, ret, faculty_response>>

\* Lines 76-77.
AskAiKeyMissing(t) ==
  /\ pc[t] = "ask_key"
  /\ KeyMissing
  /\ Respond(t, JsonResponse(500, "error", "Gemini API Key missing"))
  /\ UNCHANGED <<envVars, kbVars, dbVars, handler, request, trace, aiLocals,
                 faculty_response, served>>

\* Lines 80-81: the knowledge base is empty, load it.
AskAiLoad(t) ==
  /\ pc[t] = "ask_key"
  /\ ~KeyMissing
  /\ knowledge_base = <<>>
  /\ CallLoad(t, "ask_ai")
  /\ UNCHANGED <<envVars, kbVars, dbVars, handler, request, response,
                 files_to_upload, chat_content, faculty_response, served>>

\* Line 80: the knowledge base holds something, no call.
AskAiLoaded(t) ==
  /\ pc[t] = "ask_key"
  /\ ~KeyMissing
  /\ knowledge_base # <<>>
  /\ Goto(t, "ask_build")
  /\ UNCHANGED <<envVars, kbVars, dbVars, handler, request, response, trace,
                 aiLocals, faculty_response, served>>

\* Line 85, the constructor raises: the except clause at 107-109.
AskAiModelRaises(t, e) ==
  /\ pc[t] = "ask_build"
  /\ Log(t, Event("GenerativeModel", 0, FALSE))
  /\ Respond(t, JsonResponse(500, "error", e))
  /\ UNCHANGED <<envVars, kbVars, dbVars, handler, request, aiLocals,
                 faculty_response, served>>

\* Lines 85-92 with no question: "Question: " + None is a TypeError.
AskAiNoQuestion(t) ==
  /\ pc[t] = "ask_build"
  /\ request[t].question = NoneValue
  /\ Log(t, Event("GenerativeModel", 0, TRUE))
  /\ Respond(t, JsonResponse(500, "error", "can only concatenate str"))
  /\ UNCHANGED <<envVars, kbVars, dbVars, handler, request, aiLocals,
                 faculty_response, served>>

\* Lines 85-99: the model and the prompt, with the files attached.
AskAiBuild(t) ==
  /\ pc[t] = "ask_build"
  /\ request[t].question # NoneValue
  /\ Log(t, Event("GenerativeModel", 0, TRUE))
  /\ chat_content' = [chat_content EXCEPT ![t] = knowledge_base]
  /\ Goto(t, "ask_generate")
  /\ UNCHANGED <<envVars, kbVars, dbVars, handler, request, response,
                 files_to_upload, ret, faculty_response, served>>

\* Lines 102-105.
AskAiAnswer(t) ==
  /\ pc[t] = "ask_generate"
  /\ Log(t, Event("generate_content", Len(chat_content[t]), TRUE))
  /\ Respond(t, [status |-> 200, json |-> TRUE, key |-> "answer", text |-> "answer"])
  /\ UNCHANGED <<envVars, kbVars, dbVars, handler, request, aiLocals,
                 faculty_response, served>>

\* Line 102 raises: the except clause at 107-109.
AskAiGenerateRaises(t, e) ==
  /\ pc[t] = "ask_generate"
  /\ Log(t, Event("generate_content", Len(chat_content[t]), FALSE))
  /\ Respond(t, JsonResponse(500, "error", e))
  /\ UNCHANGED <<envVars, kbVars, dbVars, handler, request, aiLocals,
                 faculty_response, served>>

\* ------------------------------------------------------ register_faculty
\* Lines 187-196: a request arrives.
RegisterFacultyEntry(t, id, email) ==
  /\ pc[t] \in {"idle", "done"}
  /\ served < MaxDbRequests
  /\ served' = served + 1
  /\ handler' = [handler EXCEPT ![t] = "register_faculty"]
  /\ request' = [request EXCEPT ![t] = [NoRequest EXCEPT !.id = id, !.email = email]]
  /\ response' = [response EXCEPT ![t] = NoResponse]
  /\ trace' = [trace EXCEPT ![t] = <<>>]
  /\ faculty_response' = [faculty_response EXCEPT ![t] = <<>>]
  /\ Goto(t, "register_insert")
  /\ UNCHANGED <<envVars, kbVars, dbVars, aiLocals>>

\* Lines 197-198.
RegisterFacultyInsert(t) ==
  /\ pc[t] = "register_insert"
  /\ faculty' = faculty \cup {[id |-> request[t].id, email |-> request[t].email]}
  /\ Log(t, Event("faculty.insert", 0, TRUE))
  /\ Respond(t, JsonResponse(201, "message", "Faculty profile created!"))
  /\ UNCHANGED <<envVars, kbVars, complaints, complaint_responses, handler,
                 request, aiLocals, faculty_response, served>>

\* Lines 199-201.
RegisterFacultyRaises(t, e) ==
  /\ pc[t] = "register_insert"
  /\ Log(t, Event("faculty.insert", 0, FALSE))
  /\ Respond(t, JsonResponse(500, "error", e))
  /\ UNCHANGED <<envVars, kbVars, dbVars, handler, request, aiLocals,
                 faculty_response, served>>

\* ----------------------------------------------------- submit_complaint
\* The rows select('id').eq('email', email) matches.
FacultyMatches(email) == {r \in faculty : r.email = email}

\* The lists a select may return for a set of rows: no order is asked for.
Orderings(S) ==
  {s \in [1..Cardinality(S) -> S] : \A i, j \in 1..Cardinality(S) : i # j => s[i] # s[j]}

\* Line 139: `if not faculty_response.data`
NotFoundNever(data) == FALSE
NotFound(data) == data = <<>>

\* Lines 142-150: the row to insert.
ComplaintDataOwnId(t) ==
  [student_id |-> "s1", faculty_email |-> request[t].email,
   faculty_id |-> request[t].id, description |-> "d", status |-> "Pending"]
ComplaintData(t) ==
  [student_id |-> "s1", faculty_email |-> request[t].email,
   faculty_id |-> faculty_response[t][1].id, description |-> "d",
   status |-> "Pending"]

\* Lines 134-135: a request arrives.
SubmitComplaintEntry(t, email) ==
  /\ pc[t] \in {"idle", "done"}
  /\ served < MaxDbRequests
  /\ served' = served + 1
  /\ handler' = [handler EXCEPT ![t] = "submit_complaint"]
  /\ request' = [request EXCEPT ![t] = [NoRequest EXCEPT !.id = "s1", !.email = email]]
  /\ response' = [response EXCEPT ![t] = NoResponse]
  /\ trace' = [trace EXCEPT ![t] = <<>>]
  /\ faculty_response' = [faculty_response EXCEPT ![t] = <<>>]
  /\ Goto(t, "submit_lookup")
  /\ UNCHANGED <<envVars, kbVars, dbVars, aiLocals>>

\* Line 138 raises, outside any try: no handler of the route catches it.
SubmitLookupRaises(t, e) ==
  /\ pc[t] = "submit_lookup"
  /\ Log(t, Event("faculty.select", 0, FALSE))
  /\ Respond(t, UnhandledResponse)
  /\ UNCHANGED <<envVars, kbVars, dbVars, handler, request, aiLocals,
                 faculty_response, served>>

\* Lines 138-140: the lookup returns, and no row matched.
SubmitNotFound(t) ==
  /\ pc[t] = "submit_lookup"
  /\ \E data \in Orderings(FacultyMatches(request[t].email)) :
       /\ NotFound(data)
       /\ faculty_response' = [faculty_response EXCEPT ![t] = data]
  /\ Log(t, Event("faculty.select", 0, TRUE))
  /\ Respond(t, JsonResponse(404, "error", "Faculty not found"))
  /\ UNCHANGED <<envVars, kbVars, dbVars, handler, request, aiLocals, served>>

\* Lines 138-150: the lookup returns rows.
SubmitFound(t) ==
  /\ pc[t] = "submit_lookup"
  /\ \E data \in Orderings(FacultyMatches(request[t].email)) :
       /\ ~NotFound(data)
       /\ faculty_response' = [faculty_response EXCEPT ![t] = data]
  /\ Log(t, Event("faculty.select", 0, TRUE))
  /\ Goto(t, "submit_insert")
  /\ UNCHANGED <<envVars, kbVars, dbVars, handler, request, response, aiLocals,
                 served>>

\* Lines 153-154.
SubmitInsert(t) ==
  /\ pc[t] = "submit_insert"
  /\ complaints' = Append(complaints, ComplaintData(t))
  /\ Log(t, Event("complaints.insert", Len(complaints) + 1, TRUE))
  /\ Respond(t, JsonResponse(201, "message", "Complaint sent!"))
  /\ UNCHANGED <<envVars, kbVars, faculty, complaint_responses, handler, request,
                 aiLocals, faculty_response, served>>

\* Lines 155-156.
SubmitInsertRaises(t, e) ==
  /\ pc[t] = "submit_insert"
  /\ Log(t, Event("complaints.insert", 0, FALSE))
  /\ Respond(t, JsonResponse(500, "error", e))
  /\ UNCHANGED <<envVars, kbVars, dbVars, handler, request, aiLocals,
                 faculty_response, served>>

\* -------------------------------------------------------- faculty_reply
\* update({"status": "Resolved"}).eq('id', complaint_id)
SetStatusNone(rows, cid) == rows
SetStatus(rows, cid) ==
  [i \in DOMAIN rows |->
     IF i = cid THEN [rows[i] EXCEPT !.status = "Resolved"] ELSE rows[i]]

\* Lines 228-232: the row to insert.
ResponseData(t) ==
  [complaint_id |-> request[t].complaint_id, faculty_id |-> request[t].id,
   response_message |-> "m"]

\* Where the handler is once the insert raised: the except clause returns.
AfterInsertRaisedGoesOn == "reply_update"
AfterInsertRaised == "done"

\* Lines 221-224: a request arrives.
FacultyReplyEntry(t, cid, fid) ==
  /\ pc[t] \in {"idle", "done"}
  /\ served < MaxDbRequests
  /\ served' = served + 1
  /\ handler' = [handler EXCEPT ![t] = "faculty_reply"]
  /\ request' = [request EXCEPT ![t] = [NoRequest EXCEPT !.id = fid, !.complaint_id = cid]]
  /\ response' = [response EXCEPT ![t] = NoResponse]
  /\ trace' = [trace EXCEPT ![t] = <<>>]
  /\ faculty_response' = [faculty_response EXCEPT ![t] = <<>>]
  /\ Goto(t, "reply_insert")
  /\ UNCHANGED <<envVars, kbVars, dbVars, aiLocals>>

\* Line 233.
ReplyInsert(t) ==
  /\ pc[t] = "reply_insert"
  /\ complaint_responses' = Append(complaint_responses, ResponseData(t))
  /\ Log(t, Event("complaint_responses.insert", request[t].complaint_id, TRUE))
  /\ Goto(t, "reply_update")
  /\ UNCHANGED response
  /\ UNCHANGED <<envVars, kbVars, faculty, complaints, handler, request,
                 aiLocals, faculty_response, served>>

\* Line 233 raises: the except clause at 242-243.
ReplyInsertRaises(t, e) ==
  /\ pc[t] = "reply_insert"
  /\ Log(t, Event("complaint_responses.insert", request[t].complaint_id, FALSE))
  /\ response' = [response EXCEPT ![t] = JsonResponse(500, "error", e)]
  /\ Goto(t, AfterInsertRaised)
  /\ UNCHANGED <<envVars, kbVars, dbVars, handler, request, aiLocals,
                 faculty_response, served>>

\* Lines 236-241.
ReplyUpdate(t) ==
  /\ pc[t] = "reply_update"
  /\ complaints' = SetStatus(complaints, request[t].complaint_id)
  /\ Log(t, Event("complaints.update", request[t].complaint_id, TRUE))
  /\ Respond(t, JsonResponse(201, "message", "Reply sent!"))
  /\ UNCHANGED <<envVars, kbVars, faculty, complaint_responses, handler, request,
                 aiLocals, faculty_response, served>>

\* Lines 236-239 raise: the except clause at 242-243.
ReplyUpdateRaises(t, e) ==
  /\ pc[t] = "reply_update"
  /\ Log(t, Event("complaints.update", request[t].complaint_id, FALSE))
  /\ Respond(t, JsonResponse(500, "error", e))
  /\ UNCHANGED <<envVars, kbVars, dbVars, handler, request, aiLocals,
                 faculty_response, served>>

\* ------------------------------------- a direct caller of the loader
\* load_college_data() called again and again, each call after the last returned.
CallerCall(t) ==
  /\ pc[t] = "idle"
  /\ served < MaxCalls
  /\ served' = served + 1
  /\ CallLoad(t, "caller")
  /\ UNCHANGED <<envVars, kbVars, dbVars, handler, request, response,
                 files_to_upload, chat_content, faculty_response>>

\* ------------------------------------------------------- specifications
InitThreads ==
  /\ pc = [t \in Threads |-> "idle"]
  /\ handler = [t \in Threads |-> ""]
  /\ request = [t \in Threads |-> NoRequest]
  /\ response = [t \in Threads |-> NoResponse]
  /\ trace = [t \in Threads |-> <<>>]
  /\ files_to_upload = [t \in Threads |-> <<>>]
  /\ chat_content = [t \in Threads |-> <<>>]
  /\ faculty_response = [t \in Threads |-> <<>>]
  /\ ret = [t \in Threads |-> ""]
  /\ served = 0

InitKb ==
  /\ knowledge_base = <<>>
  /\ upload_count = [f \in Files |-> 0]

InitDb ==
  /\ faculty = {}
  /\ complaints = <<>>
  /\ complaint_responses = <<>>

InitFolder ==
  /\ folder_exists \in BOOLEAN
  /\ folder_files \in SUBSET Files
  /\ ~folder_exists => folder_files = {}

\* The server process: concurrent POST /api/ask-ai requests.
InitAskAi ==
  /\ api_key_set \in BOOLEAN
  /\ InitFolder /\ InitKb /\ InitDb /\ InitThreads

NextAskAi ==
  \E t \in Threads :
    \/ \E q \in Questions : AskAiEntry(t, q)
    \/ AskAiKeyMissing(t)
    \/ AskAiLoad(t)
    \/ AskAiLoaded(t)
    \/ \E e \in ErrMsgs : AskAiModelRaises(t, e)
    \/ AskAiNoQuestion(t)
    \/ AskAiBuild(t)
    \/ AskAiAnswer(t)
    \/ \E e \in ErrMsgs : AskAiGenerateRaises(t, e)
    \/ LoadGuardReturn(t)
    \/ LoadFolderMissing(t)
    \/ LoadNoFiles(t)
    \/ LoadScan(t)
    \/ LoadUploadOk(t)
    \/ LoadUploadFail(t)
    \/ LoadDone(t)

SpecAskAi == InitAskAi /\ [][NextAskAi]_vars

\* The server process: concurrent requests to the complaint routes.  The faculty
\* table is the database's, and outlives the process: it starts empty or with a
\* row an earlier register_faculty left.
InitDatabase ==
  /\ api_key_set = TRUE
  /\ folder_exists = FALSE /\ folder_files = {}
  /\ InitKb /\ InitThreads
  /\ faculty \in {{}, {[id |-> "f1", email |-> "a@rgukt"]}}
  /\ complaints = <<>>
  /\ complaint_responses = <<>>

NextDatabase ==
  \E t \in Threads :
    \/ \E id \in FacultyIds, email \in Emails : RegisterFacultyEntry(t, id, email)
    \/ RegisterFacultyInsert(t)
    \/ \E e \in ErrMsgs : RegisterFacultyRaises(t, e)
    \/ \E email \in Emails : SubmitComplaintEntry(t, email)
    \/ \E e \in ErrMsgs : SubmitLookupRaises(t, e)
    \/ SubmitNotFound(t)
    \/ SubmitFound(t)
    \/ SubmitInsert(t)
    \/ \E e \in ErrMsgs : SubmitInsertRaises(t, e)
    \/ \E cid \in ComplaintIds, fid \in FacultyIds : FacultyReplyEntry(t, cid, fid)
    \/ ReplyInsert(t)
    \/ \E e \in ErrMsgs : ReplyInsertRaises(t, e)
    \/ ReplyUpdate(t)
    \/ \E e \in ErrMsgs : ReplyUpdateRaises(t, e)

SpecDatabase == InitDatabase /\ [][NextDatabase]_vars

\* One caller, no server: load_college_data called MaxCalls times in sequence.
Caller == CHOOSE t \in Threads : \A u \in Threads : t <= u

InitLoad ==
  /\ api_key_set = TRUE
  /\ InitFolder /\ InitKb /\ InitDb /\ InitThreads

NextLoad ==
  \/ CallerCall(Caller)
  \/ LoadGuardReturn(Caller)
  \/ LoadFolderMissing(Caller)
  \/ LoadNoFiles(Caller)
  \/ LoadScan(Caller)
  \/ LoadUploadOk(Caller)
  \/ LoadUploadFail(Caller)
  \/ LoadDone(Caller)

SpecLoad == InitLoad /\ [][NextLoad]_vars

\* ------------------------------------------------ reading a trace
Marker == "load_college_data"

RECURSIVE UntilMarker(_)
\* The events of s before its first call of load_college_data.
UntilMarker(s) ==
  IF s = <<>> \/ Head(s).call = Marker THEN <<>>
  ELSE <<Head(s)>> \o UntilMarker(Tail(s))

RECURSIVE CallTrace(_, _)
\* The external calls made during the k-th call of load_college_data in s.
CallTrace(s, k) ==
  IF s = <<>> THEN <<>>
  ELSE IF Head(s).call = Marker
       THEN IF k = 1 THEN UntilMarker(Tail(s)) ELSE CallTrace(Tail(s), k - 1)
       ELSE CallTrace(Tail(s), k)

IsOk(e) == e.call = "upload_file" /\ e.ok
Succeeded(s) == SelectSeq(s, IsOk)
Args(s) == [i \in DOMAIN s |-> s[i].arg]
KbFiles == [i \in DOMAIN knowledge_base |-> knowledge_base[i].file]
Raised(t) == \E i \in DOMAIN trace[t] : ~trace[t][i].ok
IsJsonError(r) == r.status = 500 /\ r.json /\ r.key = "error" /\ r.text \in ErrMsgs

\* The caller's k-th call has returned and no later call has begun.
JustReturned(k) == served = k /\ pc[Caller] = "idle"
Returned(k) == served > k \/ JustReturned(k)

\* ------------------------------------------------------------- claims
\* C1 as stated: whatever the folder holds and however the uploads of the first
\* call end, the second of two calls of load_college_data in sequence makes no
\* upload call.
C1_SecondCallNoUpload == CallTrace(trace[Caller], 2) = <<>>

\* C1 as amended: the second call makes no upload call when an upload of the
\* first call succeeded; when none did (no folder, no file, or every upload
\* raised), the second call attempts every matching file again.
C1_SecondCallNoUploadOnceLoaded ==
  LET first == CallTrace(trace[Caller], 1)
      second == CallTrace(trace[Caller], 2)
  IN /\ Succeeded(first) # <<>> => second = <<>>
     /\ Returned(2) /\ Succeeded(first) = <<>> => Args(second) = GlobOrder(folder_files)

C1_Witness ==
  /\ Returned(2)
  /\ Len(CallTrace(trace[Caller], 1)) = 2
  /\ Len(Succeeded(CallTrace(trace[Caller], 1))) = 1

\* C2: over any interleaving of ask_ai requests, every file is uploaded at most
\* once and the knowledge base never holds two handles of one file.
C2_UploadedOnce ==
  /\ \A f \in Files : upload_count[f] <= 1
  /\ \A i, j \in DOMAIN knowledge_base :
       knowledge_base[i].file = knowledge_base[j].file => i = j

\* C3: a submit_complaint whose faculty lookup returned no row ends with 404,
\* and the lookup is the only database call it made: no insert, no change.
C3_UnknownFaculty404 ==
  \A t \in Threads :
    (/\ handler[t] = "submit_complaint"
     /\ trace[t] # <<>>
     /\ trace[t][1].ok
     /\ faculty_response[t] = <<>>)
    => /\ pc[t] = "done"
       /\ response[t] = JsonResponse(404, "error", "Faculty not found")
       /\ trace[t] = <<Event("faculty.select", 0, TRUE)>>

C3_Witness ==
  \E t \in Threads :
    /\ handler[t] = "submit_complaint" /\ pc[t] = "done"
    /\ response[t].status = 404
    /\ faculty # {}

\* C4 as stated: a submit_complaint whose lookup matched a faculty row ends
\* with 201 and has inserted a row.
C4_KnownFaculty201 ==
  \A t \in Threads :
    (handler[t] = "submit_complaint" /\ pc[t] = "done" /\ faculty_response[t] # <<>>)
    => /\ response[t].status = 201
       /\ trace[t][Len(trace[t])] = Event("complaints.insert", Len(complaints), TRUE)

\* What the step that leaves submit_complaint's insert does.
C4_InsertStep ==
  \A t \in Threads :
    (pc[t] = "submit_insert" /\ pc'[t] # "submit_insert")
    => /\ pc'[t] = "done"
       /\ \/ /\ response'[t] = JsonResponse(201, "message", "Complaint sent!")
             /\ complaints' = Append(complaints,
                  [student_id |-> "s1", faculty_email |-> request[t].email,
                   faculty_id |-> faculty_response[t][1].id, description |-> "d",
                   status |-> "Pending"])
          \/ /\ IsJsonError(response'[t])
             /\ complaints' = complaints

\* The lookup result a submit_complaint goes on with: rows of the table with
\* the request's email.
C4_LookedUp ==
  \A t \in Threads :
    (handler[t] = "submit_complaint" /\ faculty_response[t] # <<>>)
    => /\ pc[t] \in {"submit_insert", "done"}
       /\ \A i \in DOMAIN faculty_response[t] :
            faculty_response[t][i] \in FacultyMatches(request[t].email)
       /\ pc[t] = "done" => Len(trace[t]) = 2 /\ response[t].status \in {201, 500}

\* C4 as amended: a submit_complaint whose lookup matched inserts one row with
\* the faculty_id of the first looked-up row and status 'Pending' and answers
\* 201, unless the insert raises: then no row is inserted and the answer is 500
\* with the error's message.
C4_KnownFacultyInserts == []C4_LookedUp /\ [][C4_InsertStep]_vars

C4_Witness ==
  \E t \in Threads :
    /\ handler[t] = "submit_complaint" /\ pc[t] = "done"
    /\ response[t].status = 201
    /\ Len(faculty_response[t]) = 2
    /\ complaints[Len(complaints)].faculty_id = faculty_response[t][1].id

\* C5 as stated: the step that ends a faculty_reply leaves the complaint of the
\* request, when there is one, with status 'Resolved'.
C5_ReplyAlwaysResolves ==
  [][\A t \in Threads :
       (handler[t] = "faculty_reply" /\ pc[t] # "done" /\ pc'[t] = "done")
       => \A i \in DOMAIN complaints :
            i = request[t].complaint_id => complaints'[i].status = "Resolved"]_vars

\* What the step that ends a faculty_reply does to the complaints.
C5_ReplyStep ==
  \A t \in Threads :
    (handler[t] = "faculty_reply" /\ pc[t] # "done" /\ pc'[t] = "done")
    => IF response'[t].status = 201
       THEN /\ pc[t] = "reply_update"
            /\ DOMAIN complaints' = DOMAIN complaints
            /\ \A i \in DOMAIN complaints :
                 complaints'[i] = IF i = request[t].complaint_id
                                  THEN [complaints[i] EXCEPT !.status = "Resolved"]
                                  ELSE complaints[i]
       ELSE /\ IsJsonError(response'[t])
            /\ complaints' = complaints

\* No step takes a complaint out of 'Resolved'.
C5_ResolvedStays ==
  \A i \in DOMAIN complaints :
    complaints[i].status = "Resolved"
    => i \in DOMAIN complaints' /\ complaints'[i].status = "Resolved"

\* C5 as amended: a faculty_reply that answers 201 has set the status of the
\* complaint with the request's id to 'Resolved', whatever it was, and it stays
\* so; a faculty_reply one of whose two writes raised answers 500 and has left
\* every complaint's status as it was.
C5_ReplyResolvesOn201 == [][C5_ReplyStep /\ C5_ResolvedStays]_vars

C5_Witness ==
  \E t \in Threads :
    /\ served = 2
    /\ handler[t] = "faculty_reply" /\ pc[t] = "done"
    /\ response[t].status = 201
    /\ request[t].complaint_id \in DOMAIN complaints
    /\ complaints[request[t].complaint_id].status = "Resolved"

\* C6: with the key unset, every ask_ai ends with 500 and the fixed message, no
\* thread makes an external call or enters load_college_data, nothing is
\* uploaded and the knowledge base stays as it was.
C6_KeyUnset500 ==
  ~api_key_set =>
    /\ knowledge_base = <<>>
    /\ \A f \in Files : upload_count[f] = 0
    /\ \A t \in Threads :
         /\ trace[t] = <<>>
         /\ pc[t] \in {"idle", "ask_key", "done"}
         /\ pc[t] = "done" =>
              response[t] = JsonResponse(500, "error", "Gemini API Key missing")

C6_Witness ==
  /\ ~api_key_set
  /\ folder_files # {}
  /\ \E t \in Threads : handler[t] = "ask_ai" /\ pc[t] = "done"

\* C7: in a call of load_college_data that scans, an upload that raises is
\* skipped: the files already attempted and the files still to visit are
\* always all the matching files, and when the call has returned it has
\* attempted every one of them and the knowledge base holds the files whose
\* upload succeeded, in order.  A first call always scans.
C7_FailedUploadSkipped ==
  /\ pc[Caller] = "load_upload" =>
       Args(CallTrace(trace[Caller], served)) \o files_to_upload[Caller]
         = GlobOrder(folder_files)
  /\ \A k \in 1..served :
       JustReturned(k) =>
         LET c == CallTrace(trace[Caller], k)
         IN /\ (c # <<>> \/ k = 1) =>
                 /\ Args(c) = GlobOrder(folder_files)
                 /\ KbFiles = Args(Succeeded(c))
            /\ c = <<>> => KbFiles = Args(Succeeded(trace[Caller]))

C7_Witness ==
  /\ JustReturned(1)
  /\ trace[Caller] = <<Event(Marker, 0, TRUE), Event("upload_file", 1, FALSE),
                       Event("upload_file", 2, TRUE)>>
  /\ knowledge_base = <<Handle(2, 1)>>

\* C8: a request one of whose external calls raised ends with 500 and the
\* JSON body {"error": <the message>}.
C8_RaiseIs500Json ==
  \A t \in Threads :
    (pc[t] = "done" /\ Raised(t)) => IsJsonError(response[t])

\* C9: no step removes a handle from the knowledge base: what it held it
\* still holds, in place, so once non-empty it is never empty again.
C9_NeverShrinks ==
  [][/\ Len(knowledge_base') >= Len(knowledge_base)
     /\ SubSeq(knowledge_base', 1, Len(knowledge_base)) = knowledge_base
     /\ knowledge_base # <<>> => knowledge_base' # <<>>]_vars

C9_Witness ==
  /\ Len(knowledge_base) = 2
  /\ \E t \in Threads :
       /\ pc[t] = "done" /\ response[t].status = 200
       /\ trace[t] = <<Event("GenerativeModel", 0, TRUE),
                       Event("generate_content", 2, TRUE)>>

\* What holds of a faculty_reply at every moment: the update is its second call
\* and follows an insert that succeeded; an insert that raised is its only
\* call and the answer is 500; after an insert that succeeded the response row
\* is in the table; and every 'Resolved' complaint has a response row.
C10_Order ==
  /\ \A i \in DOMAIN complaints :
       complaints[i].status = "Resolved"
       => \E j \in DOMAIN complaint_responses :
            complaint_responses[j].complaint_id = i
  /\ \A t \in Threads :
       handler[t] = "faculty_reply" =>
         /\ \A i \in DOMAIN trace[t] :
              trace[t][i].call = "complaints.update"
              => /\ i = 2
                 /\ trace[t][1] = Event("complaint_responses.insert",
                                        request[t].complaint_id, TRUE)
         /\ (trace[t] # <<>> /\ ~trace[t][1].ok)
            => /\ pc[t] = "done"
               /\ Len(trace[t]) = 1
               /\ IsJsonError(response[t])
         /\ (trace[t] # <<>> /\ trace[t][1].ok)
            => \E j \in DOMAIN complaint_responses :
                 complaint_responses[j] = ResponseData(t)
         /\ (pc[t] = "done" /\ Len(trace[t]) = 2 /\ ~trace[t][2].ok)
            => IsJsonError(response[t])

\* The step in which faculty_reply's update raises changes no table.
C10_UpdateRaised ==
  \A t \in Threads :
    (pc[t] = "reply_update" /\ pc'[t] = "done" /\ response'[t].status # 201)
    => /\ complaints' = complaints
       /\ complaint_responses' = complaint_responses

\* C10: faculty_reply inserts the response row before it updates the status: if
\* the insert raises no update is attempted and the answer is 500; if the
\* update raises after the insert, the response row stays and the status is
\* unchanged; so every complaint with status 'Resolved' has a response row.
C10_InsertBeforeUpdate == []C10_Order /\ [][C10_UpdateRaised]_vars

C10_Witness ==
  \E t \in Threads :
    /\ handler[t] = "faculty_reply" /\ pc[t] = "done"
    /\ Len(trace[t]) = 2 /\ ~trace[t][2].ok
    /\ request[t].complaint_id \in DOMAIN complaints
    /\ complaints[request[t].complaint_id].status = "Pending"

====
